---- MODULE Spec2Model ----
(***************************************************************************)
(* Model of ocr_utils.py: the remote and local OCR extractors, the PDF     *)
(* extractor, the message splitter, the image validator and enhancer and   *)
(* the text statistics.                                                    *)
(*                                                                         *)
(* A Python string is a sequence of pieces: a text handled character by    *)
(* character (split, strip, len) is a sequence of one-character strings;   *)
(* a literal of a message is one piece; f-string formatting and + are \o.  *)
(* Every function is single-threaded and keeps no state between calls, so  *)
(* a behaviour is one invocation: Init draws the function, its arguments   *)
(* and what the libraries it calls will answer, and one action per         *)
(* function runs it to its return.                                         *)
(***************************************************************************)
EXTENDS Integers, Sequences, FiniteSets, TLC

VARIABLES fn, args, env, pc, ret, logs, caught, httpCalls, tessCalls

vars == <<fn, args, env, pc, ret, logs, caught, httpCalls, tessCalls>>

\* ------------------------------------------------------------- bounds
MaxTextLen == 6
MaxLength == 3
MaxPages == 3

\* ------------------------------------------------------ Python strings
Chars == {"a", "b", " ", "\n"}

Whitespace == {" ", "\n"}

Texts == UNION {[1..n -> Chars] : n \in 0..MaxTextLen}

IsSpace(c) == c \in Whitespace

\* s[i:j] of Python with 1-based inclusive ends
Slice(s, i, j) == [k \in 1..(j - i + 1) |-> s[i + k - 1]]

\* str.strip(): drop leading and trailing whitespace
Strip(s) ==
    LET keep == {i \in 1..Len(s) : ~IsSpace(s[i])}
    IN IF keep = {} THEN <<>>
       ELSE LET lo == CHOOSE i \in keep : \A j \in keep : i <= j
                hi == CHOOSE i \in keep : \A j \in keep : j <= i
            IN Slice(s, lo, hi)

RECURSIVE SplitNewline(_)
\* str.split('\n'): one more element than there are newlines
SplitNewline(s) ==
    LET nl == {i \in 1..Len(s) : s[i] = "\n"}
    IN IF nl = {} THEN <<s>>
       ELSE LET i == CHOOSE k \in nl : \A j \in nl : k <= j
            IN <<Slice(s, 1, i - 1)>> \o SplitNewline(Slice(s, i + 1, Len(s)))

RECURSIVE SplitWhitespace(_)
\* str.split(): the maximal runs of non-whitespace characters
SplitWhitespace(s) ==
    LET ns == {i \in 1..Len(s) : ~IsSpace(s[i])}
    IN IF ns = {} THEN <<>>
       ELSE LET lo == CHOOSE k \in ns : \A j \in ns : k <= j
                sp == {i \in lo..Len(s) : IsSpace(s[i])}
                hi == IF sp = {} THEN Len(s)
                      ELSE (CHOOSE k \in sp : \A j \in sp : k <= j) - 1
            IN <<Slice(s, lo, hi)>> \o SplitWhitespace(Slice(s, hi + 1, Len(s)))

RECURSIVE IntToStr(_)
\* str(n) of a non-negative integer, digit by digit
IntToStr(n) ==
    LET digit(d) == <<"0", "1", "2", "3", "4", "5", "6", "7", "8", "9">>[d + 1]
    IN IF n < 10 THEN <<digit(n)>> ELSE IntToStr(n \div 10) \o <<digit(n % 10)>>

RECURSIVE Join(_, _)
\* sep.join(parts)
Join(sep, parts) ==
    IF parts = <<>> THEN <<>>
    ELSE IF Len(parts) = 1 THEN parts[1]
    ELSE parts[1] \o sep \o Join(sep, Tail(parts))

\* ------------------------------------------------------- split_message
\* line 138 without the newline's +1 counted and one character more allowed
LineFitsLoose(current_message, line, max_length) ==
    Len(current_message) + Len(line) <= max_length + 1

\* line 138: the line and its newline still fit the accumulating chunk
LineFits(current_message, line, max_length) ==
    Len(current_message) + Len(line) + 1 <= max_length

\* line 148: the word and its space still fit the accumulating chunk
WordFits(temp, word, max_length) ==
    Len(temp) + Len(word) + 1 <= max_length

\* lines 141-142: flush the accumulator, when it is not empty
FlushCurrent(messages, current_message) ==
    IF current_message # <<>> THEN Append(messages, Strip(current_message))
    ELSE messages

\* lines 151-152 with the append of line 151 forgotten
WordOverflowDropsChunk(st, word) ==
    [messages |-> st.messages, temp |-> word \o <<" ">>]

\* lines 151-152: flush temp unconditionally and restart it with the word
WordOverflow(st, word) ==
    [messages |-> Append(st.messages, Strip(st.temp)), temp |-> word \o <<" ">>]

RECURSIVE WordLoop(_, _, _)
\* lines 147-152: the loop over the words of an over-long line
WordLoop(st, words, max_length) ==
    IF words = <<>> THEN st
    ELSE LET word == Head(words)
             nxt == IF WordFits(st.temp, word, max_length)
                    THEN [st EXCEPT !.temp = @ \o word \o <<" ">>]
                    ELSE WordOverflow(st, word)
         IN WordLoop(nxt, Tail(words), max_length)

\* lines 138-155: the body of the loop over the lines
LineStep(st, line, max_length) ==
    IF LineFits(st.current_message, line, max_length)
    THEN [st EXCEPT !.current_message = @ \o line \o <<"\n">>]
    ELSE LET flushed == FlushCurrent(st.messages, st.current_message)
         IN IF Len(line) > max_length
            THEN LET w == WordLoop([messages |-> flushed, temp |-> <<>>],
                                   SplitWhitespace(line), max_length)
                 IN [messages |-> w.messages, current_message |-> w.temp]
            ELSE [messages |-> flushed, current_message |-> line \o <<"\n">>]

RECURSIVE LineLoop(_, _, _)
\* line 137: for line in text.split('\n')
LineLoop(st, lines, max_length) ==
    IF lines = <<>> THEN st
    ELSE LineLoop(LineStep(st, Head(lines), max_length), Tail(lines), max_length)

\* line 160 as a plain `return messages`
SplitResultNoFallback(messages) == messages

\* line 160: return messages if messages else [""]
SplitResult(messages) == IF messages # <<>> THEN messages ELSE << <<>> >>

\* lines 130-160
split_message(text, max_length) ==
    LET st == LineLoop([messages |-> <<>>, current_message |-> <<>>],
                       SplitNewline(text), max_length)
    IN SplitResult(FlushCurrent(st.messages, st.current_message))

\* ------------------------------------------------- exceptions and logs
\* the outcome of a block of code: it returns val, or raises type(val)
Return(v) == [kind |-> "return", val |-> v, type |-> "", msg |-> <<>>]

Raise(type, message) == [kind |-> "raise", val |-> <<>>, type |-> type, msg |-> <<message>>]

\* what one invocation did: its return value, the entries it wrote to the
\* logger, the except clauses it entered, its HTTP requests and its calls
\* of the local extractor (by page number)
Effect(v, l, c, h, t) == [ret |-> v, logs |-> l, caught |-> c, http |-> h, tess |-> t]

\* logger.error(f"<prefix>{e}") in function f
LogEntry(f, prefix, msg) == [fn |-> f, msg |-> <<prefix>> \o msg]

\* an except clause of function f that was entered
Caught(f, clause) == [fn |-> f, clause |-> clause]

\* dict.get(key, default): an entry of a dict is present or absent
Get(entry, default) == IF entry.present THEN entry.value ELSE default

Present(v) == [present |-> TRUE, value |-> v]

Absent(v) == [present |-> FALSE, value |-> v]

\* ------------------------------------- extract_text_from_image_ocr_api
\* line 48: result.get('ErrorMessage', ['Unknown error'])[0]
ErrorMessageOf(result) ==
    LET messages == Get(result.ErrorMessage, <<"Unknown error">>)
    IN IF Len(messages) >= 1 THEN Return(<<messages[1]>>)
       ELSE Raise("IndexError", "list index out of range")

\* lines 47-49: the provider reports a processing error
ProviderError(result) ==
    LET error_msg == ErrorMessageOf(result)
    IN IF error_msg.kind = "raise" THEN error_msg
       ELSE Return(<<"ERROR: OCR processing failed: ">> \o error_msg.val)

\* lines 51-60: the text of the first parsed result
ParsedText(result) ==
    LET parsed_results == Get(result.ParsedResults, <<>>)
    IN IF parsed_results = <<>>
       THEN Return(<<"WARNING: No text detected in image">>)
       ELSE LET extracted_text == Strip(Get(parsed_results[1].ParsedText, <<>>))
            IN IF extracted_text = <<>>
               THEN Return(<<"WARNING: No text detected in image">>)
               ELSE Return(extracted_text)

\* lines 44-62: what is made of the response
HandleResponse(response) ==
    IF response.ok
    THEN IF ~response.json_ok THEN Raise("JSONDecodeError", "Expecting value")
         ELSE IF Get(response.json.IsErroredOnProcessing, FALSE)
              THEN ProviderError(response.json)
              ELSE ParsedText(response.json)
    ELSE Return(<<"ERROR: Server connection failed (">>
                \o IntToStr(response.status_code) \o <<")">>)

\* lines 21-27 with the else branch of line 26 missing
PrepareImageAnyType(image_data) ==
    IF image_data.kind = "str" /\ ~image_data.open_ok
    THEN Raise("FileNotFoundError", "No such file or directory")
    ELSE Return(<<"bytes">>)

\* lines 21-27: the bytes to upload, or the early return
PrepareImage(image_data) ==
    IF image_data.kind = "str"
    THEN IF image_data.open_ok THEN Return(<<"bytes">>)
         ELSE Raise("FileNotFoundError", "No such file or directory")
    ELSE IF image_data.kind = "bytes" THEN Return(<<"bytes">>)
    ELSE Return(<<"ERROR: Invalid image data type">>)

\* line 42: requests.post(..., timeout=30) and lines 44-62
PostAndParse(http) ==
    IF http.post = "timeout" THEN Raise("Timeout", "Read timed out")
    ELSE IF http.post = "raise" THEN Raise("ConnectionError", "Connection refused")
    ELSE HandleResponse(http)

\* lines 17-62: the try block, with the number of requests it made
ApiTry(image_data, http) ==
    LET prepared == PrepareImage(image_data)
    IN IF prepared.kind = "raise" \/ prepared.val # <<"bytes">>
       THEN [out |-> prepared, http |-> 0]
       ELSE [out |-> PostAndParse(http), http |-> 1]

\* lines 64-65 with a logger.error call added
ApiTimeoutLogged(requests) ==
    Effect(<<"ERROR: OCR API request timed out">>,
           <<LogEntry("extract_text_from_image_ocr_api", "OCR API error: ", <<"timeout">>)>>,
           <<Caught("extract_text_from_image_ocr_api", "Timeout")>>, requests, <<>>)

\* lines 64-65: except requests.exceptions.Timeout
ApiTimeout(requests) ==
    Effect(<<"ERROR: OCR API request timed out">>, <<>>,
           <<Caught("extract_text_from_image_ocr_api", "Timeout")>>, requests, <<>>)

\* lines 66-68: except Exception
ApiException(msg, requests) ==
    Effect(<<"ERROR: ">> \o msg,
           <<LogEntry("extract_text_from_image_ocr_api", "OCR API error: ", msg)>>,
           <<Caught("extract_text_from_image_ocr_api", "Exception")>>, requests, <<>>)

\* lines 13-68
extract_text_from_image_ocr_api(image_data, http) ==
    LET t == ApiTry(image_data, http)
    IN IF t.out.kind = "return" THEN Effect(t.out.val, <<>>, <<>>, t.http, <<>>)
       ELSE IF t.out.type = "Timeout" THEN ApiTimeout(t.http)
       ELSE ApiException(t.out.msg, t.http)

\* ----------------------------------- extract_text_from_image_tesseract
BannerWidth == 50

\* '=' * 50
Banner == [i \in 1..BannerWidth |-> "="]

\* line 88: f"{'=' * 50}\nPage {page_number}\n{'=' * 50}\n\n"
PageHeader(page_number) ==
    Banner \o <<"\n", "Page ">> \o IntToStr(page_number) \o <<"\n">>
    \o Banner \o <<"\n", "\n">>

\* lines 76-85: decode, convert to RGB, run the engine, strip
TesseractTry(image) ==
    IF image.isbytes /\ ~image.open_ok
    THEN Raise("UnidentifiedImageError", "cannot identify image file")
    ELSE IF ~image.convert_ok THEN Raise("OSError", "image file is truncated")
    ELSE IF ~image.ocr_ok THEN Raise("TesseractError", "tesseract failed")
    ELSE Return(Strip(image.ocr_text))

\* lines 87-91: with a page number the header goes before the text
WithPageHeader(text, page_number) ==
    IF page_number.some THEN PageHeader(page_number.n) \o text ELSE text

\* lines 93-95: except Exception
TesseractException(msg) ==
    Effect(<<"ERROR: Image processing failed: ">> \o msg,
           <<LogEntry("extract_text_from_image_tesseract", "Tesseract OCR error: ", msg)>>,
           <<Caught("extract_text_from_image_tesseract", "Exception")>>, 0, <<>>)

\* lines 71-95
extract_text_from_image_tesseract(image, page_number) ==
    LET t == TesseractTry(image)
    IN IF t.kind = "return"
       THEN Effect(WithPageHeader(t.val, page_number), <<>>, <<>>, 0, <<>>)
       ELSE TesseractException(t.msg)

\* ----------------------------------------------- extract_text_from_pdf
\* lines 105-108: pdf2image.convert_from_bytes on the bytes or on read()
Rasterize(pdf_file, raster) ==
    IF ~pdf_file.isbytes /\ ~pdf_file.read_ok
    THEN Raise("AttributeError", "object has no attribute 'read'")
    ELSE IF ~raster.ok THEN Raise("PDFPageCountError", "Unable to get page count")
    ELSE Return(raster.pages)

\* line 113: enumerate(images, 1) numbers the k-th image (from 1)
PageNumber(k) == [some |-> TRUE, n |-> k]

\* line 117 as `i <= total_pages`
NeedsSeparatorAlways(i, total_pages) == i <= total_pages

\* line 117: a separator follows every page but the last
NeedsSeparator(i, total_pages) == i < total_pages

\* line 118: "\n\n" + "=" * 50 + "\n\n"
PageSeparator == <<"\n", "\n">> \o Banner \o <<"\n", "\n">>

\* line 120: f"Total Pages: {total_pages}\n" + "=" * 50 + "\n\n"
PdfHeader(total_pages) ==
    <<"Total Pages: ">> \o IntToStr(total_pages) \o <<"\n">> \o Banner \o <<"\n", "\n">>

\* lines 114-118 with the output of a page whose OCR failed left out
PageStepSkipsFailed(st, k, images) ==
    LET page == extract_text_from_image_tesseract(images[k], PageNumber(k))
        total_pages == Len(images)
    IN [all_text |-> st.all_text \o (IF page.caught = <<>> THEN <<page.ret>> ELSE <<>>)
                     \o (IF NeedsSeparator(k, total_pages) THEN <<PageSeparator>> ELSE <<>>),
        logs |-> st.logs \o page.logs,
        caught |-> st.caught \o page.caught,
        tess |-> Append(st.tess, PageNumber(k).n)]

\* lines 114-118: one iteration of the loop over the pages
PageStep(st, k, images) ==
    LET page == extract_text_from_image_tesseract(images[k], PageNumber(k))
        total_pages == Len(images)
    IN [all_text |-> st.all_text \o <<page.ret>>
                     \o (IF NeedsSeparator(k, total_pages) THEN <<PageSeparator>> ELSE <<>>),
        logs |-> st.logs \o page.logs,
        caught |-> st.caught \o page.caught,
        tess |-> Append(st.tess, PageNumber(k).n)]

RECURSIVE PageLoop(_, _, _)
\* line 113: for i, image in enumerate(images, 1)
PageLoop(st, k, images) ==
    IF k > Len(images) THEN st
    ELSE PageLoop(PageStep(st, k, images), k + 1, images)

\* lines 123-125: except Exception
PdfException(msg) ==
    Effect(<<"ERROR: PDF processing failed: ">> \o msg,
           <<LogEntry("extract_text_from_pdf", "PDF OCR error: ", msg)>>,
           <<Caught("extract_text_from_pdf", "Exception")>>, 0, <<>>)

\* lines 100-125
extract_text_from_pdf(pdf_file, raster) ==
    LET images == Rasterize(pdf_file, raster)
    IN IF images.kind = "raise" THEN PdfException(images.msg)
       ELSE LET st == PageLoop([all_text |-> <<>>, logs |-> <<>>, caught |-> <<>>,
                                tess |-> <<>>], 1, images.val)
            IN Effect(PdfHeader(Len(images.val)) \o Join(<<"\n">>, st.all_text),
                      st.logs, st.caught, 0, st.tess)

\* ------------------------------------------------------- validate_image
\* config.MAX_IMAGE_SIZE, a (width, height) pair
MAX_IMAGE_SIZE == <<2, 2>>

\* line 175: the formats accepted
AllowedFormats == {"JPEG", "PNG", "BMP", "TIFF"}

\* lines 165-181: the except clause returns the message and logs nothing
validate_image(image_data) ==
    IF ~image_data.open_ok
    THEN Effect([valid |-> FALSE, message |-> "cannot identify image file"], <<>>,
                <<Caught("validate_image", "Exception")>>, 0, <<>>)
    ELSE IF image_data.size[1] > MAX_IMAGE_SIZE[1] \/ image_data.size[2] > MAX_IMAGE_SIZE[2]
    THEN Effect([valid |-> FALSE, message |-> "Image size exceeds allowed limits"],
                <<>>, <<>>, 0, <<>>)
    ELSE IF image_data.format \notin AllowedFormats
    THEN Effect([valid |-> FALSE, message |-> "Unsupported image format"],
                <<>>, <<>>, 0, <<>>)
    ELSE Effect([valid |-> TRUE, message |-> "OK"], <<>>, <<>>, 0, <<>>)

\* ------------------------------------------------ enhance_image_for_ocr
\* the steps of the try block, in the order they run
EnhanceSteps == <<"import", "convert", "sharpness", "contrast", "grayscale">>

\* lines 189-196: what a step that succeeds rebinds the local `image` to;
\* enhancement factors are kept in tenths (1.0 is 10)
ApplyStep(step, image) ==
    IF step = "convert"
    THEN (IF image.mode # "RGB" THEN [image EXCEPT !.mode = "RGB"] ELSE image)
    ELSE IF step = "sharpness" THEN [image EXCEPT !.sharpness = (@ * 20) \div 10]
    ELSE IF step = "contrast" THEN [image EXCEPT !.contrast = (@ * 15) \div 10]
    ELSE IF step = "grayscale" THEN [image EXCEPT !.mode = "L"]
    ELSE image

\* whether the step makes a library call at all (line 191 guards convert)
StepRuns(step, image) == step # "convert" \/ image.mode # "RGB"

\* lines 200-202: except Exception logs and returns the local `image`
EnhanceException(image, msg) ==
    Effect(image, <<LogEntry("enhance_image_for_ocr", "Image enhancement error: ", msg)>>,
           <<Caught("enhance_image_for_ocr", "Exception")>>, 0, <<>>)

RECURSIVE EnhanceFrom(_, _, _)
\* lines 188-202: the steps from the k-th on, fail_at being the step that raises
EnhanceFrom(k, image, fail_at) ==
    IF k > Len(EnhanceSteps) THEN Effect(image, <<>>, <<>>, 0, <<>>)
    ELSE IF EnhanceSteps[k] = fail_at /\ StepRuns(EnhanceSteps[k], image)
    THEN EnhanceException(image, <<"enhancement step failed">>)
    ELSE EnhanceFrom(k + 1, ApplyStep(EnhanceSteps[k], image), fail_at)

\* lines 184-202
enhance_image_for_ocr(image, fail_at) == EnhanceFrom(1, image, fail_at)

\* -------------------------------------------------- get_text_statistics
\* lines 205-217: a text that is no string has no split and raises
get_text_statistics(text) ==
    IF text.isstr
    THEN Effect([isnone |-> FALSE,
                 lines |-> Len(SplitNewline(text.value)),
                 words |-> Len(SplitWhitespace(text.value)),
                 characters |-> Len(text.value)], <<>>, <<>>, 0, <<>>)
    ELSE Effect([isnone |-> TRUE, lines |-> 0, words |-> 0, characters |-> 0],
                <<LogEntry("get_text_statistics", "Text statistics error: ",
                           <<"object has no attribute 'split'">>)>>,
                <<Caught("get_text_statistics", "Exception")>>, 0, <<>>)

\* ------------------------------------------------- arguments and answers
Functions == {"extract_text_from_image_ocr_api", "extract_text_from_image_tesseract",
              "extract_text_from_pdf", "split_message", "validate_image",
              "enhance_image_for_ocr", "get_text_statistics"}

\* image_data of the remote extractor: a path (that opens or not), bytes, or else
ImageDatas ==
    {[kind |-> "str", open_ok |-> b] : b \in BOOLEAN}
    \cup {[kind |-> k, open_ok |-> TRUE] : k \in {"bytes", "other"}}

\* the JSON bodies of the provider
Jsons ==
    [IsErroredOnProcessing : {Absent(FALSE), Present(TRUE), Present(FALSE)},
     ErrorMessage : {Absent(<<>>), Present(<<>>), Present(<<"bad scan">>),
                     Present(<<"bad scan", "retry later">>)},
     ParsedResults : {Absent(<<>>), Present(<<>>),
                      Present(<<[ParsedText |-> Absent(<<>>)]>>),
                      Present(<<[ParsedText |-> Present(<<" ", "\n">>)]>>),
                      Present(<<[ParsedText |-> Present(<<" ", "a", " ", "b", "\n">>)]>>),
                      Present(<<[ParsedText |-> Present(<<"a">>)],
                                [ParsedText |-> Present(<<"b">>)]>>)}]

NoJson ==
    [IsErroredOnProcessing |-> Absent(FALSE), ErrorMessage |-> Absent(<<>>),
     ParsedResults |-> Absent(<<>>)]

\* what requests.post will do: time out, raise, or answer
Https ==
    {[post |-> p, ok |-> FALSE, status_code |-> 0, json_ok |-> FALSE, json |-> NoJson] :
        p \in {"timeout", "raise"}}
    \cup {[post |-> "response", ok |-> FALSE, status_code |-> c, json_ok |-> FALSE,
           json |-> NoJson] : c \in {404, 500}}
    \cup {[post |-> "response", ok |-> TRUE, status_code |-> 200, json_ok |-> FALSE,
           json |-> NoJson]}
    \cup {[post |-> "response", ok |-> TRUE, status_code |-> 200, json_ok |-> TRUE,
           json |-> j] : j \in Jsons}

\* what the OCR engine reads on an image
OcrTexts == {<<>>, <<"a">>, <<" ", "b", "\n">>}

\* an image (or its bytes) with what decoding, convert('RGB') and the engine do on it
Images ==
    [isbytes : BOOLEAN, open_ok : BOOLEAN, convert_ok : BOOLEAN, ocr_ok : BOOLEAN,
     ocr_text : OcrTexts]

PageNumbers == {[some |-> FALSE, n |-> 0]} \cup {[some |-> TRUE, n |-> k] : k \in {1, 3, 12}}

\* the images a rasterizer yields: decoded, two readable, two on which a step fails
PageImages ==
    {i \in Images : /\ ~i.isbytes /\ i.open_ok
                    /\ \/ i.convert_ok /\ i.ocr_ok /\ i.ocr_text # <<>>
                       \/ i.convert_ok # i.ocr_ok /\ i.ocr_text = <<>>}

PdfFiles == {[isbytes |-> TRUE, read_ok |-> TRUE], [isbytes |-> FALSE, read_ok |-> TRUE],
             [isbytes |-> FALSE, read_ok |-> FALSE]}

Rasters ==
    {[ok |-> FALSE, pages |-> <<>>]}
    \cup {[ok |-> TRUE, pages |-> p] : p \in UNION {[1..n -> PageImages] : n \in 0..MaxPages}}

\* the images validate_image is given
ValidatedImages ==
    [isbytes : BOOLEAN, open_ok : BOOLEAN,
     size : (1..(MAX_IMAGE_SIZE[1] + 1)) \X (1..(MAX_IMAGE_SIZE[2] + 1)),
     format : AllowedFormats \cup {"GIF"}]

\* the images enhance_image_for_ocr is given
EnhancedImages == [mode : {"RGB", "L", "RGBA"}, sharpness : {10}, contrast : {10}]

FailAts == {"none", "import", "convert", "sharpness", "contrast", "grayscale"}

StatTexts == {[isstr |-> TRUE, value |-> t] : t \in Texts} \cup {[isstr |-> FALSE, value |-> <<>>]}

\* ------------------------------------------------------- state machine
Invocations ==
    /\ \/ /\ fn = "split_message"
          /\ args \in [text : Texts, max_length : 1..MaxLength]
          /\ env = <<>>
       \/ /\ fn = "extract_text_from_image_ocr_api"
          /\ args \in [image_data : ImageDatas]
          /\ env \in Https
       \/ /\ fn = "extract_text_from_image_tesseract"
          /\ args \in [image : Images, page_number : PageNumbers]
          /\ env = <<>>
       \/ /\ fn = "extract_text_from_pdf"
          /\ args \in [pdf_file : PdfFiles]
          /\ env \in Rasters
       \/ /\ fn = "validate_image"
          /\ args \in [image_data : ValidatedImages]
          /\ env = <<>>
       \/ /\ fn = "enhance_image_for_ocr"
          /\ args \in [image : EnhancedImages]
          /\ env \in FailAts
       \/ /\ fn = "get_text_statistics"
          /\ args \in [text : StatTexts]
          /\ env = <<>>

Init ==
    /\ Invocations
    /\ pc = "call"
    /\ ret = <<>>
    /\ logs = <<>>
    /\ caught = <<>>
    /\ httpCalls = 0
    /\ tessCalls = <<>>

\* the invocation runs to its return
Returns(e) ==
    /\ pc' = "done"
    /\ ret' = e.ret
    /\ logs' = e.logs
    /\ caught' = e.caught
    /\ httpCalls' = e.http
    /\ tessCalls' = e.tess
    /\ UNCHANGED <<fn, args, env>>

Calls(f) == pc = "call" /\ fn = f

SplitMessage ==
    /\ Calls("split_message")
    /\ Returns(Effect(split_message(args.text, args.max_length), <<>>, <<>>, 0, <<>>))

ExtractTextFromImageOcrApi ==
    /\ Calls("extract_text_from_image_ocr_api")
    /\ Returns(extract_text_from_image_ocr_api(args.image_data, env))

ExtractTextFromImageTesseract ==
    /\ Calls("extract_text_from_image_tesseract")
    /\ Returns(extract_text_from_image_tesseract(args.image, args.page_number))

ExtractTextFromPdf ==
    /\ Calls("extract_text_from_pdf")
    /\ Returns(extract_text_from_pdf(args.pdf_file, env))

ValidateImage ==
    /\ Calls("validate_image")
    /\ Returns(validate_image(args.image_data))

EnhanceImageForOcr ==
    /\ Calls("enhance_image_for_ocr")
    /\ Returns(enhance_image_for_ocr(args.image, env))

GetTextStatistics ==
    /\ Calls("get_text_statistics")
    /\ Returns(get_text_statistics(args.text))

Next ==
    \/ SplitMessage
    \/ ExtractTextFromImageOcrApi
    \/ ExtractTextFromImageTesseract
    \/ ExtractTextFromPdf
    \/ ValidateImage
    \/ EnhanceImageForOcr
    \/ GetTextStatistics

Spec == Init /\ [][Next]_vars

\* --------------------------------------------------------- properties
Done(f) == pc = "done" /\ fn = f

\* the characters of s that are not whitespace, in order
NonWhitespace(s) == SelectSeq(s, LAMBDA c : ~IsSpace(c))

\* s is one word: not empty and free of whitespace
IsWord(s) == s # <<>> /\ \A i \in 1..Len(s) : ~IsSpace(s[i])

RECURSIVE Flatten(_)
\* the chunks one after the other
Flatten(chunks) == IF chunks = <<>> THEN <<>> ELSE Head(chunks) \o Flatten(Tail(chunks))

\* how many elements of seq satisfy P
Count(seq, P(_)) == Cardinality({i \in 1..Len(seq) : P(seq[i])})

\* C1: every chunk split_message returns is at most max_length long, except a
\* chunk that is one whitespace-free word itself longer than max_length.
C1_ChunkLength ==
    Done("split_message") =>
        \A i \in 1..Len(ret) :
            \/ Len(ret[i]) <= args.max_length
            \/ IsWord(ret[i]) /\ Len(ret[i]) > args.max_length

\* a split with one over-long word emitted whole beside a chunk that fills
\* max_length exactly
C1_Witness ==
    /\ Done("split_message")
    /\ \E i \in 1..Len(ret) : IsWord(ret[i]) /\ Len(ret[i]) > args.max_length
    /\ \E i \in 1..Len(ret) : Len(ret[i]) = args.max_length

\* C2: the non-whitespace characters of the chunks, in order, are those of
\* the text: nothing is dropped, duplicated or reordered.
C2_ContentPreserved ==
    Done("split_message") => NonWhitespace(Flatten(ret)) = NonWhitespace(args.text)

\* a text of several words over several lines, with both letters, that was
\* split into several chunks through the word packing of an over-long line
C2_Witness ==
    /\ Done("split_message")
    /\ Len(ret) >= 3
    /\ \E i, j, k \in 1..Len(args.text) :
          i < j /\ j < k /\ args.text[i] = "a" /\ args.text[j] = " " /\ args.text[k] = "b"
    /\ \E i \in 1..Len(args.text) : args.text[i] = "\n"
    /\ \E l \in 1..Len(SplitNewline(args.text)) :
          Len(SplitNewline(args.text)[l]) > args.max_length

\* C8: split_message never returns an empty sequence, and the empty text
\* gives exactly [""].
C8_NeverEmpty ==
    Done("split_message") =>
        /\ ret # <<>>
        /\ args.text = <<>> => ret = << <<>> >>

\* the empty text was split
C8_Witness == Done("split_message") /\ args.text = <<>> /\ ret = << <<>> >>

\* C10: when split_message returns more than one chunk, no chunk is empty.
C10_NoEmptyChunk ==
    (Done("split_message") /\ Len(ret) > 1) => \A i \in 1..Len(ret) : ret[i] # <<>>

\* ---- the remote extractor
\* the request was answered with a success status and a JSON body
Answered ==
    /\ args.image_data.kind = "bytes" \/ (args.image_data.kind = "str" /\ args.image_data.open_ok)
    /\ env.post = "response" /\ env.ok /\ env.json_ok

\* C6: when the HTTP call succeeds and the response has IsErroredOnProcessing
\* true, the result is 'ERROR: OCR processing failed: <message>', <message>
\* being the first ErrorMessage entry when there is one, for every shape of
\* ErrorMessage and whatever ParsedResults holds.
C6_ProviderErrorReported ==
    (/\ Done("extract_text_from_image_ocr_api")
     /\ Answered
     /\ env.json.IsErroredOnProcessing = Present(TRUE)) =>
        /\ Len(ret) = 2
        /\ ret[1] = "ERROR: OCR processing failed: "
        /\ (env.json.ErrorMessage.present /\ env.json.ErrorMessage.value # <<>>)
              => ret[2] = env.json.ErrorMessage.value[1]

\* C9: the remote extractor makes at most one HTTP request, and none for an
\* input that is neither a path nor bytes, which gets exactly
\* 'ERROR: Invalid image data type'.
C9_AtMostOneRequest ==
    Done("extract_text_from_image_ocr_api") =>
        /\ httpCalls <= 1
        /\ args.image_data.kind \notin {"str", "bytes"} =>
              /\ httpCalls = 0
              /\ ret = <<"ERROR: Invalid image data type">>
              /\ logs = <<>>

\* an input of another type was refused although the server would have answered
C9_Witness ==
    /\ Done("extract_text_from_image_ocr_api")
    /\ args.image_data.kind = "other"
    /\ env.post = "response" /\ env.ok
    /\ httpCalls = 0
    /\ ret = <<"ERROR: Invalid image data type">>

\* ---- the PDF extractor
\* rasterization raises
RasterFails == (~args.pdf_file.isbytes /\ ~args.pdf_file.read_ok) \/ ~env.ok

\* the OCR of the k-th page raises
PageFails(k) == ~env.pages[k].convert_ok \/ ~env.pages[k].ocr_ok

\* the output of the local extractor for the k-th page
PageOutput(k) == extract_text_from_image_tesseract(env.pages[k], [some |-> TRUE, n |-> k]).ret

RECURSIVE PagesFrom(_, _)
\* the outputs of pages k..n, a banner between two of them and none at the end
PagesFrom(k, n) ==
    IF k > n THEN <<>>
    ELSE IF k = n THEN PageOutput(k)
    ELSE PageOutput(k) \o <<"\n", "\n", "\n">> \o [i \in 1..50 |-> "="]
         \o <<"\n", "\n", "\n">> \o PagesFrom(k + 1, n)

\* the header of a document of n pages
TotalPages(n) == <<"Total Pages: ">> \o IntToStr(n) \o <<"\n">> \o [i \in 1..50 |-> "="] \o <<"\n", "\n">>

\* C7: for a PDF of N >= 1 pages that all OCR successfully, the local
\* extractor is called once per page with the numbers 1..N in order, and the
\* result is the 'Total Pages: N' header, then the N page outputs in order
\* with a separator banner between two pages and none after the last.
C7_PagesInOrder ==
    (/\ Done("extract_text_from_pdf")
     /\ ~RasterFails
     /\ Len(env.pages) >= 1
     /\ \A k \in 1..Len(env.pages) : ~PageFails(k)) =>
        /\ tessCalls = [k \in 1..Len(env.pages) |-> k]
        /\ ret = TotalPages(Len(env.pages)) \o PagesFrom(1, Len(env.pages))
        /\ Count(ret, LAMBDA c : c = "=") = 50 * (3 * Len(env.pages))
        /\ \A k \in 1..Len(env.pages) : PageOutput(k)[52] = "Page "

\* a document of several pages with different texts, all read
C7_Witness ==
    /\ Done("extract_text_from_pdf")
    /\ ~RasterFails
    /\ Len(env.pages) >= 2
    /\ \A k \in 1..Len(env.pages) : ~PageFails(k)
    /\ env.pages[1].ocr_text # env.pages[2].ocr_text
    /\ tessCalls # <<>>

C4_ReturnsOriginal ==
    (Done("enhance_image_for_ocr") /\ caught # <<>>) => ret = args.image

\* ---- logging
\* C5 (as claimed): in every function but validate_image each except clause
\* that is entered, the Timeout clause included, writes one log entry;
\* validate_image writes none.
C5_EveryCatchLogs ==
    pc = "done" =>
        \A f \in Functions :
            Count(logs, LAMBDA l : l.fn = f)
                = IF f = "validate_image" THEN 0
                  ELSE Count(caught, LAMBDA c : c.fn = f)

\* C5 (amended): in every function but validate_image each `except
\* Exception` clause that is entered writes one log entry; the Timeout
\* clause of the remote extractor and validate_image write none.
C5_ExceptionCatchLogs ==
    pc = "done" =>
        \A f \in Functions :
            Count(logs, LAMBDA l : l.fn = f)
                = IF f = "validate_image" THEN 0
                  ELSE Count(caught, LAMBDA c : c.fn = f /\ c.clause = "Exception")

\* the request timed out: the clause was entered and nothing was logged
C5_Witness ==
    /\ Done("extract_text_from_image_ocr_api")
    /\ caught = <<[fn |-> "extract_text_from_image_ocr_api", clause |-> "Timeout"]>>
    /\ logs = <<>>
    /\ ret = <<"ERROR: OCR API request timed out">>

====
